---- MODULE Spec2Model ----
(***************************************************************************)
(* Sound-effect plugin of clod: resolution of the sound pack into the      *)
(* event/hook -> sound configuration, and the dispatch of host events and  *)
(* hooks to fire-and-forget playback commands.                             *)
(*                                                                         *)
(* Strings the code inspects character by character (paths) are sequences  *)
(* of one-character strings; keys of mappings, which the code only         *)
(* compares for equality, are TLA+ strings.                                *)
(***************************************************************************)
EXTENDS Integers, Sequences, FiniteSets, TLC

VARIABLES fs, HOME, pc, idx, reads, pack, soundConfig,
          calls, playbacks, sfxPlays, unhandled

vars == <<fs, HOME, pc, idx, reads, pack, soundConfig,
          calls, playbacks, sfxPlays, unhandled>>

(***************************************************************************)
(* Bounds                                                                  *)
(***************************************************************************)
\* handler invocations delivered by the host in one run
MaxInvocations == 2

(***************************************************************************)
(* Path strings                                                            *)
(***************************************************************************)
DEFAULT_BASE_DIR ==
    <<"~", "/", ".", "c", "l", "a", "u", "d", "e", "/", "s", "o", "u", "n", "d", "s">>

MewWav == <<"m", "e", "w", ".", "w", "a", "v">>

\* `${DEFAULT_BASE_DIR}/mew.wav`
DefaultSoundPath == DEFAULT_BASE_DIR \o <<"/">> \o MewWav

\* the literal "~/.claude/sounds/" of toClodArg
TildePrefix == DEFAULT_BASE_DIR \o <<"/">>

\* the literal suffix of `${home}/.claude/sounds/`
HomeSuffix == <<"/", ".", "c", "l", "a", "u", "d", "e", "/", "s", "o", "u", "n", "d", "s", "/">>

\* String.prototype.startsWith / endsWith / slice(n)
StartsWith(s, p) ==
    Len(s) >= Len(p) /\ SubSeq(s, 1, Len(p)) = p

EndsWith(s, p) ==
    Len(s) >= Len(p) /\ SubSeq(s, Len(s) - Len(p) + 1, Len(s)) = p

Slice(s, n) ==
    SubSeq(s, n + 1, Len(s))

\* s.split("/") followed by parts[parts.length - 1]
LastSegment(s) ==
    LET slashes == {k \in 1..Len(s) : s[k] = "/"}
        last == IF slashes = {} THEN 0
                ELSE CHOOSE k \in slashes : \A j \in slashes : j <= k
    IN  SubSeq(s, last + 1, Len(s))

(***************************************************************************)
(* JSON values as the code sees them.  A value is a record                 *)
(*   [t: its JavaScript kind, s: its characters when a string,             *)
(*    n: its number when a number]                                         *)
(* and a sound entry adds the field path, the value of its path property   *)
(* when the entry is an object (undefined when the property is absent).    *)
(***************************************************************************)
Undefined == [t |-> "undefined", s |-> <<>>, n |-> 0]

Str(s) == [t |-> "string", s |-> s, n |-> 0]

Num(n) == [t |-> "number", s |-> <<>>, n |-> n]

\* JavaScript truthiness of a value
Truthy(v) ==
    CASE v.t = "string" -> v.s # <<>>
      [] v.t = "number" -> v.n # 0
      [] v.t \in {"undefined", "null"} -> FALSE
      [] OTHER -> TRUE

\* entries of the two SoundEntry forms, and of shapes the type does not allow
StrEntry(s) == [t |-> "string", s |-> s, n |-> 0, path |-> Undefined]

ObjEntry(p) == [t |-> "object", s |-> <<>>, n |-> 0, path |-> p]

NullEntry == [t |-> "null", s |-> <<>>, n |-> 0, path |-> Undefined]

\* results of a call that may throw
Returned(v) == [threw |-> FALSE, v |-> v]

Threw == [threw |-> TRUE, v |-> <<>>]

(***************************************************************************)
(* normalizePath(baseDir, entry)                                           *)
(***************************************************************************)
\* `typeof entry === "string" ? entry : entry.path`: reading a property of
\* null or undefined throws a TypeError; of any other value it yields the
\* property or undefined
RawOf(entry) ==
    CASE entry.t = "string" -> Returned(Str(entry.s))
      [] entry.t \in {"null", "undefined"} -> Threw
      [] entry.t = "object" -> Returned(entry.path)
      [] OTHER -> Returned(Undefined)

\* baseDir + separator + raw: the join of lines 33-36
JoinAlwaysSeparator(baseDir, raw) ==
    baseDir \o <<"/">> \o raw

Join(baseDir, raw) ==
    IF EndsWith(baseDir, <<"/">>) THEN baseDir \o raw
    ELSE baseDir \o <<"/">> \o raw

\* baseDir is the value of `pack?.baseDir || DEFAULT_BASE_DIR`; calling
\* startsWith / endsWith on a value that is not a string throws a TypeError
normalizePath(baseDir, entry) ==
    LET r == RawOf(entry)
    IN  IF r.threw THEN Threw
        ELSE IF ~Truthy(r.v) THEN Returned(<<>>)
        ELSE IF r.v.t # "string" THEN Threw
        ELSE IF StartsWith(r.v.s, <<"/">>) \/ StartsWith(r.v.s, <<"~">>)
             THEN Returned(r.v.s)
        ELSE IF baseDir.t # "string" THEN Threw
        ELSE Returned(Join(baseDir.s, r.v.s))

(***************************************************************************)
(* Sound packs.  A pack is the parsed document                             *)
(*   [t, baseDir, opencode: [t, events: [t, m], hooks: [t, m]]]            *)
(* where m maps the keys of a section to its entries.                      *)
(***************************************************************************)
NoEntries == [k \in {} |-> NullEntry]

NoSection == [t |-> "undefined", m |-> NoEntries]

Section(m) == [t |-> "object", m |-> m]

NoOpencode == [t |-> "undefined", events |-> NoSection, hooks |-> NoSection]

Opencode(ev, hk) == [t |-> "object", events |-> ev, hooks |-> hk]

\* a document of kind t that carries none of the properties the code reads
Doc(t) == [t |-> t, baseDir |-> Undefined, opencode |-> NoOpencode]

Pack(baseDir, opencode) == [t |-> "object", baseDir |-> baseDir, opencode |-> opencode]

\* `pack?.baseDir || DEFAULT_BASE_DIR`
BaseDirOf(p) ==
    IF Truthy(p.baseDir) THEN p.baseDir ELSE Str(DEFAULT_BASE_DIR)

\* `if (path)` of lines 73 and 82: the entry is stored only for a non-empty path
KeepsEverything(path) ==
    TRUE

Keeps(path) ==
    path # <<>>

\* the loops of lines 70-77 and 79-86 over one section of the pack; a throw
\* of normalizePath leaves the loop and buildConfigFromPack
NormalizeSection(baseDir, section) ==
    IF section.t # "object" THEN Returned([k \in {} |-> [path |-> <<>>]])
    ELSE LET m == section.m
             norm == [k \in DOMAIN m |-> normalizePath(baseDir, m[k])]
         IN  IF \E k \in DOMAIN m : norm[k].threw THEN Threw
             ELSE Returned([k \in {j \in DOMAIN m : Keeps(norm[j].v)} |->
                               [path |-> norm[k].v]])

\* the condition of line 89
NothingInEvents(events, hooks) ==
    DOMAIN events = {}

NothingConfigured(events, hooks) ==
    DOMAIN events = {} /\ DOMAIN hooks = {}

\* events["session.idle"] = { path: `${DEFAULT_BASE_DIR}/mew.wav` }
WithDefault(events) ==
    [k \in DOMAIN events \cup {"session.idle"} |->
        IF k = "session.idle" THEN [path |-> DefaultSoundPath] ELSE events[k]]

buildConfigFromPack(p) ==
    LET baseDir == BaseDirOf(p)
        ev == NormalizeSection(baseDir, p.opencode.events)
        hk == NormalizeSection(baseDir, p.opencode.hooks)
    IN  IF ev.threw \/ hk.threw THEN Threw
        ELSE Returned([events |-> IF NothingConfigured(ev.v, hk.v)
                                  THEN WithDefault(ev.v) ELSE ev.v,
                       hooks |-> hk.v])

(***************************************************************************)
(* toClodArg(fullPath), with home the value of the HOME variable           *)
(* (the empty string when it is not set)                                   *)
(***************************************************************************)
Prefixes(home) ==
    IF home # <<>> THEN <<TildePrefix, home \o HomeSuffix>> ELSE <<TildePrefix>>

\* toClodArg without the loop over the prefixes
toClodArgBasenameOnly(fullPath, home) ==
    LET last == LastSegment(fullPath)
    IN  IF last # <<>> THEN last ELSE fullPath

toClodArg(fullPath, home) ==
    LET prefixes == Prefixes(home)
        hits == {k \in 1..Len(prefixes) : StartsWith(fullPath, prefixes[k])}
    IN  IF hits # {}
        THEN LET first == CHOOSE k \in hits : \A j \in hits : k <= j
             IN  Slice(fullPath, Len(prefixes[first]))
        ELSE LET last == LastSegment(fullPath)
             IN  IF last # <<>> THEN last ELSE fullPath

(***************************************************************************)
(* Inputs: the contents of the three candidate files and the environment   *)
(***************************************************************************)
\* the candidates of lines 116-120, in order: project-local, user-config, global
Candidates == <<"project", "config", "global">>

\* what Bun.file(p).json() meets: no file, a file that cannot be read, text
\* that is not JSON (all three throw), or a parsed document
Missing == [kind |-> "missing", doc |-> Doc("null")]

Unreadable == [kind |-> "unreadable", doc |-> Doc("null")]

Malformed == [kind |-> "malformed", doc |-> Doc("null")]

Parsed(d) == [kind |-> "parsed", doc |-> d]

SndDir == <<"/", "s", "n", "d">>

HomeDir == <<"/", "h">>

SubDir == <<"u", "i", "/">>

SampleBaseDirs ==
    {Undefined, Str(<<>>), Str(SndDir), Str(SndDir \o <<"/">>), Num(5)}

SampleEntries ==
    {StrEntry(<<>>), StrEntry(MewWav), StrEntry(SndDir \o <<"/">>),
     StrEntry(DefaultSoundPath), StrEntry(HomeDir \o HomeSuffix \o SubDir \o MewWav),
     ObjEntry(Str(<<>>)), ObjEntry(Str(MewWav)), ObjEntry(Undefined),
     ObjEntry(Num(5)), NullEntry}

EventKeys == {"session.idle", "foo"}

SampleEventSections ==
    {NoSection} \cup
    UNION {{Section(m) : m \in [K -> SampleEntries]} : K \in SUBSET EventKeys}

SampleOneEventSections ==
    {Section([k \in {key} |-> e]) : key \in EventKeys, e \in SampleEntries}

SampleHookSections ==
    {NoSection,
     Section([k \in {"permission.ask"} |-> StrEntry(MewWav)]),
     Section([k \in {"permission.ask"} |-> StrEntry(<<>>)]),
     Section([k \in {"session.idle"} |-> ObjEntry(Str(MewWav))]),
     Section([k \in {"chat.message", "tool.execute.after"} |-> StrEntry(SndDir \o <<"/">> \o MewWav)])}

SampleFewEventSections ==
    {NoSection,
     Section([k \in {"permission.ask"} |-> StrEntry(MewWav)]),
     Section([k \in {"foo"} |-> ObjEntry(Str(<<>>))])}

SamplePacks ==
    {Pack(b, Opencode(ev, NoSection)) : b \in {Undefined, Str(SndDir \o <<"/">>)},
                                        ev \in SampleEventSections}
    \cup {Pack(b, Opencode(ev, NoSection)) : b \in SampleBaseDirs,
                                             ev \in SampleOneEventSections}
    \cup {Pack(b, Opencode(ev, hk)) : b \in {Undefined, Str(SndDir)},
                                      ev \in SampleFewEventSections,
                                      hk \in SampleHookSections}
    \cup {Pack(Str(SndDir), NoOpencode)}

\* contents that decide which candidate loadSoundPack returns
SampleLoadContents ==
    {Missing, Unreadable, Malformed,
     Parsed(Doc("null")), Parsed(Doc("number")), Parsed(Doc("array")),
     Parsed(Pack(Str(SndDir), Opencode(Section([k \in {"foo"} |-> StrEntry(MewWav)]), NoSection))),
     Parsed(Pack(Undefined, Opencode(NoSection, Section([k \in {"chat.message"} |-> StrEntry(MewWav)]))))}

\* every combination of the load contents, and every sample pack as the
\* only candidate that exists
LoadSystems ==
    [1..Len(Candidates) -> SampleLoadContents]

PackSystems ==
    {<<Missing, Parsed(p), Missing>> : p \in SamplePacks}

\* the event types the host delivers to the generic handler
EventTypes == {"session.idle", "foo", "permission.ask"}

(***************************************************************************)
(* State                                                                   *)
(*   fs          contents of the candidate files                           *)
(*   HOME        process.env.HOME, <<>> when not set                       *)
(*   pc          "load" | "loaded" | "ready" | "failed" (MyPlugin rejected)*)
(*   idx         the candidate loadSoundPack reads next                    *)
(*   reads       the candidates read so far, in order                      *)
(*   pack        the result of loadSoundPack                               *)
(*   soundConfig the result of buildConfigFromPack                         *)
(*   calls       the handler invocations, each with its outcome            *)
(*   playbacks   the playback commands issued, each with its outcome       *)
(*   sfxPlays    the paths the sfx.ts variant asked to play                *)
(*   unhandled   promises of playSound rejected with no reaction attached  *)
(***************************************************************************)
NoMapping == [k \in {} |-> [path |-> <<>>]]

NoConfig == [events |-> NoMapping, hooks |-> NoMapping]

Init ==
    /\ \/ fs \in LoadSystems /\ HOME = HomeDir
       \/ fs \in PackSystems /\ HOME \in {<<>>, HomeDir}
    /\ pc = "load"
    /\ idx = 1
    /\ reads = <<>>
    /\ pack = Doc("null")
    /\ soundConfig = NoConfig
    /\ calls = <<>>
    /\ playbacks = <<>>
    /\ sfxPlays = <<>>
    /\ unhandled = 0

(***************************************************************************)
(* loadSoundPack: one iteration of the loop per step (file.json() is       *)
(* awaited), the return of null when the candidates are exhausted          *)
(***************************************************************************)
\* `data && typeof data === "object"`; typeof null is "object" too
AcceptsTypeofObject(d) ==
    d.t \in {"null", "array", "object"}

Accepts(d) ==
    d.t # "null" /\ d.t \in {"null", "array", "object"}

ReadCandidate ==
    /\ pc = "load"
    /\ idx <= Len(Candidates)
    /\ reads' = Append(reads, idx)
    /\ IF fs[idx].kind = "parsed" /\ Accepts(fs[idx].doc)
       THEN /\ pack' = fs[idx].doc
            /\ pc' = "loaded"
            /\ idx' = idx
       ELSE /\ idx' = idx + 1
            /\ UNCHANGED <<pack, pc>>
    /\ UNCHANGED <<fs, HOME, soundConfig, calls, playbacks, sfxPlays, unhandled>>

ReturnNull ==
    /\ pc = "load"
    /\ idx > Len(Candidates)
    /\ pack' = Doc("null")
    /\ pc' = "loaded"
    /\ UNCHANGED <<fs, HOME, idx, reads, soundConfig, calls, playbacks, sfxPlays, unhandled>>

\* line 121 and the return of the hooks table; a throw of
\* buildConfigFromPack rejects the promise of MyPlugin
BuildConfig ==
    /\ pc = "loaded"
    /\ LET r == buildConfigFromPack(pack)
       IN  IF r.threw
           THEN pc' = "failed" /\ UNCHANGED soundConfig
           ELSE pc' = "ready" /\ soundConfig' = r.v
    /\ UNCHANGED <<fs, HOME, idx, reads, pack, calls, playbacks, sfxPlays, unhandled>>

(***************************************************************************)
(* Dispatch (part_000, lines 123-159)                                      *)
(***************************************************************************)
\* `mapping[key]` followed by `cfg?.path`: the path, or <<>> for undefined
PathOf(mapping, key) ==
    IF key \in DOMAIN mapping THEN mapping[key].path ELSE <<>>

\* the lookup of the generic handler, `soundConfig.events[event.type]`
EventPathOrHookPath(cfg, type) ==
    IF type \in DOMAIN cfg.events THEN cfg.events[type].path
    ELSE PathOf(cfg.hooks, type)

EventPath(cfg, type) ==
    PathOf(cfg.events, type)

\* the lookup of a named hook handler, `soundConfig.hooks["<name>"]`
HookPath(cfg, name) ==
    PathOf(cfg.hooks, name)

\* `void playSound(cfg.path)`: the call that waits for the promise of
\* playSound, 0 for none
AwaiterIsCaller(c) ==
    c

Awaiter(c) ==
    0

\* playSound: the command `clod sfx play ${arg} &` it starts
Command(c, path, home) ==
    [call |-> c, path |-> path, arg |-> toClodArg(path, home),
     status |-> "pending", awaitedBy |-> Awaiter(c)]

\* the body shared by the five handlers, for the path they looked up
Handle(kind, key, path) ==
    /\ pc = "ready"
    /\ Len(calls) < MaxInvocations
    /\ LET c == Len(calls) + 1
       IN  IF path # <<>>
           THEN /\ playbacks' = Append(playbacks, Command(c, path, HOME))
                /\ calls' = Append(calls, [kind |-> kind, key |-> key,
                                           status |-> IF Awaiter(c) = 0 THEN "returned"
                                                      ELSE "awaiting",
                                           play |-> Len(playbacks) + 1])
           ELSE /\ calls' = Append(calls, [kind |-> kind, key |-> key,
                                           status |-> "returned", play |-> 0])
                /\ UNCHANGED playbacks

(***************************************************************************)
(* The sfx.ts variant: a fixed mapping and a loop over all its keys        *)
(***************************************************************************)
sfxSoundConfig ==
    [k \in {"session.idle"} |->
        [path |-> <<"~", "/", ".", "c", "l", "a", "u", "d", "e", "/",
                    "s", "o", "u", "n", "d", "s", "/", "m", "e", "w", ".", "w", "a", "v">>]]

\* `event.type === key`
SfxMatchesEveryKey(type, key) ==
    TRUE

SfxMatches(type, key) ==
    type = key

\* the loop of lines 22-26 over Object.entries(cfg): the paths handed to
\* playSound, one per matching key
RECURSIVE SfxLoop(_, _, _)
SfxLoop(keys, cfg, type) ==
    IF keys = {} THEN <<>>
    ELSE LET k == CHOOSE x \in keys : TRUE
         IN  (IF SfxMatches(type, k) THEN <<cfg[k].path>> ELSE <<>>)
             \o SfxLoop(keys \ {k}, cfg, type)

SfxEvent(cfg, type) ==
    SfxLoop(DOMAIN cfg, cfg, type)

(***************************************************************************)
(* The handlers the host calls                                             *)
(***************************************************************************)
\* a generic event, delivered to the event handler of both variants
Event ==
    \E type \in EventTypes :
        /\ Handle("event", type, EventPath(soundConfig, type))
        /\ sfxPlays' = sfxPlays \o SfxEvent(sfxSoundConfig, type)
        /\ UNCHANGED <<fs, HOME, pc, idx, reads, pack, soundConfig, unhandled>>

ToolExecuteBefore ==
    /\ Handle("hook", "tool.execute.before", HookPath(soundConfig, "tool.execute.before"))
    /\ UNCHANGED <<fs, HOME, pc, idx, reads, pack, soundConfig, sfxPlays, unhandled>>

ToolExecuteAfter ==
    /\ Handle("hook", "tool.execute.after", HookPath(soundConfig, "tool.execute.after"))
    /\ UNCHANGED <<fs, HOME, pc, idx, reads, pack, soundConfig, sfxPlays, unhandled>>

\* a handler that plays its sound once and then forgets it
PermissionAskOnce ==
    /\ Handle("hook", "permission.ask", HookPath(soundConfig, "permission.ask"))
    /\ soundConfig' = [soundConfig EXCEPT !.hooks =
                          [k \in DOMAIN soundConfig.hooks \ {"permission.ask"} |->
                              soundConfig.hooks[k]]]
    /\ UNCHANGED <<fs, HOME, pc, idx, reads, pack, sfxPlays, unhandled>>

PermissionAsk ==
    /\ Handle("hook", "permission.ask", HookPath(soundConfig, "permission.ask"))
    /\ UNCHANGED <<fs, HOME, pc, idx, reads, pack, soundConfig, sfxPlays, unhandled>>

ChatMessage ==
    /\ Handle("hook", "chat.message", HookPath(soundConfig, "chat.message"))
    /\ UNCHANGED <<fs, HOME, pc, idx, reads, pack, soundConfig, sfxPlays, unhandled>>

\* the playback command ends: it exits with 0, or it fails (the executable
\* is missing, the exit code is not 0) and the awaited shell promise, hence
\* the promise of playSound, rejects.  A call waiting for that promise
\* resumes; a rejection nobody waits for is an unhandled rejection.
PlaybackEnds ==
    \E k \in DOMAIN playbacks, outcome \in {"exited", "failed"} :
        /\ playbacks[k].status = "pending"
        /\ playbacks' = [playbacks EXCEPT ![k].status = outcome]
        /\ LET w == playbacks[k].awaitedBy
           IN  /\ calls' = IF w = 0 THEN calls
                           ELSE [calls EXCEPT ![w].status =
                                    IF outcome = "exited" THEN "returned" ELSE "threw"]
               /\ unhandled' = IF w = 0 /\ outcome = "failed"
                               THEN unhandled + 1 ELSE unhandled
        /\ UNCHANGED <<fs, HOME, pc, idx, reads, pack, soundConfig, sfxPlays>>

Next ==
    \/ ReadCandidate
    \/ ReturnNull
    \/ BuildConfig
    \/ Event
    \/ ToolExecuteBefore
    \/ ToolExecuteAfter
    \/ PermissionAsk
    \/ ChatMessage
    \/ PlaybackEnds

Spec == Init /\ [][Next]_vars

(***************************************************************************)
(* Properties                                                              *)
(***************************************************************************)
\* what the properties call things, stated without the operators above
MewPath ==
    <<"~", "/", ".", "c", "l", "a", "u", "d", "e", "/",
      "s", "o", "u", "n", "d", "s", "/", "m", "e", "w", ".", "w", "a", "v">>

SoundsDir ==
    <<"~", "/", ".", "c", "l", "a", "u", "d", "e", "/", "s", "o", "u", "n", "d", "s">>

DefaultConfig ==
    [events |-> [k \in {"session.idle"} |-> [path |-> MewPath]], hooks |-> NoMapping]

\* a candidate that reads and parses to a non-null object
IsObjectContent(c) ==
    c.kind = "parsed" /\ c.doc.t \in {"array", "object"}

\* the raw path of an entry of one of the two documented forms: the string
\* itself, or the path field; <<>> when it is empty or missing
RawPath(e) ==
    IF e.t = "string" THEN e.s
    ELSE IF e.t = "object" /\ e.path.t = "string" THEN e.path.s
    ELSE <<>>

EntriesOf(section) ==
    IF section.t = "object" THEN section.m ELSE NoEntries

\* the keys of a section whose entry has a non-empty raw path
Surviving(section) ==
    {k \in DOMAIN EntriesOf(section) : RawPath(EntriesOf(section)[k]) # <<>>}

\* the keys of a section whose entry has an empty or missing raw path
Emptied(section) ==
    {k \in DOMAIN EntriesOf(section) :
        LET e == EntriesOf(section)[k]
        IN  \/ e.t = "string" /\ e.s = <<>>
            \/ e.t = "object" /\ e.path \in {Str(<<>>), Undefined}}

Resolved == pc = "ready"

\* C1: resolution (loadSoundPack, then buildConfigFromPack) never fails to
\* its caller, whatever the candidates hold.  The code violates it: an entry
\* that is null, or whose path is not a string, makes normalizePath throw.
C1_ResolutionNeverFails ==
    pc # "failed"

\* C2: the candidates are read strictly in order; the pack is the content of
\* the first candidate that reads and parses to a non-null object, no
\* candidate after it is read, every candidate before it was read and
\* skipped, and the pack is none when no candidate succeeds.
C2_FirstObjectCandidateWins ==
    LET good == {k \in 1..Len(Candidates) : IsObjectContent(fs[k])}
        first == CHOOSE k \in good : \A j \in good : k <= j
        upTo(n) == [k \in 1..n |-> k]
    IN  /\ pc = "load" =>
            /\ reads = upTo(idx - 1)
            /\ \A k \in 1..(idx - 1) : k \notin good
        /\ pc # "load" =>
            IF good = {}
            THEN pack = Doc("null") /\ reads = upTo(Len(Candidates))
            ELSE pack = fs[first].doc /\ reads = upTo(first)

C2_Witness ==
    /\ pc = "loaded"
    /\ fs[1].kind = "malformed"
    /\ fs[2] = Parsed(Doc("null"))
    /\ IsObjectContent(fs[3])
    /\ pack = fs[3].doc
    /\ reads = <<1, 2, 3>>

\* C3: the default is injected iff both mappings are empty after
\* normalization; then the configuration is exactly session.idle ->
\* "~/.claude/sounds/mew.wav" with no hooks; otherwise the mappings hold the
\* surviving entries and nothing else.  A resolved configuration is never
\* empty.
C3_DefaultIffNothingConfigured ==
    Resolved =>
        LET ev == Surviving(pack.opencode.events)
            hk == Surviving(pack.opencode.hooks)
        IN  /\ IF ev = {} /\ hk = {}
               THEN soundConfig = DefaultConfig
               ELSE /\ DOMAIN soundConfig.events = ev
                    /\ DOMAIN soundConfig.hooks = hk
            /\ DOMAIN soundConfig.events \cup DOMAIN soundConfig.hooks # {}

C3_Witness ==
    /\ Resolved
    /\ pack.t = "object"
    /\ Emptied(pack.opencode.events) = {"session.idle", "foo"}
    /\ Emptied(pack.opencode.hooks) = {}
    /\ soundConfig = DefaultConfig

\* the path the claim C4 expects for raw path p against base directory b
ExpectedPath(b, p) ==
    IF p[1] \in {"/", "~"} THEN p
    ELSE IF b # <<>> /\ b[Len(b)] = "/" THEN b \o p
    ELSE b \o <<"/">> \o p

\* every entry with a non-empty raw path is resolved to the expected path
\* against base directory b
ResolvedAgainst(b) ==
    /\ \A k \in Surviving(pack.opencode.events) :
          /\ k \in DOMAIN soundConfig.events
          /\ soundConfig.events[k].path =
                ExpectedPath(b, RawPath(pack.opencode.events.m[k]))
    /\ \A k \in Surviving(pack.opencode.hooks) :
          /\ k \in DOMAIN soundConfig.hooks
          /\ soundConfig.hooks[k].path =
                ExpectedPath(b, RawPath(pack.opencode.hooks.m[k]))

\* C4 as stated: the base directory is the pack's baseDir, or
\* "~/.claude/sounds" when baseDir is absent.  Refuted by baseDir "".
C4_AsStated ==
    Resolved /\ pack.baseDir.t \in {"undefined", "string"} =>
        ResolvedAgainst(IF pack.baseDir.t = "undefined"
                        THEN SoundsDir ELSE pack.baseDir.s)

\* C4 amended: the base directory is the pack's baseDir when that is a
\* non-empty string, and "~/.claude/sounds" when baseDir is absent or empty
\* or the pack is none; a path starting with "/" or "~" is left unchanged, any
\* other is appended to the base directory with exactly one separator.
C4_NormalizedPath ==
    Resolved /\ pack.baseDir.t \in {"undefined", "string"} =>
        ResolvedAgainst(IF pack.baseDir.t = "undefined" \/ pack.baseDir.s = <<>>
                        THEN SoundsDir ELSE pack.baseDir.s)

C4_Witness ==
    /\ Resolved
    /\ pack.baseDir = Str(<<"/", "s", "n", "d", "/">>)
    /\ "foo" \in Surviving(pack.opencode.events)
    /\ RawPath(pack.opencode.events.m["foo"]) = <<"m", "e", "w", ".", "w", "a", "v">>
    /\ soundConfig.events["foo"].path =
          <<"/", "s", "n", "d", "/", "m", "e", "w", ".", "w", "a", "v">>
    /\ "session.idle" \in Surviving(pack.opencode.events)
    /\ soundConfig.events["session.idle"].path = MewPath

\* the pack with the entry at key k of a section given a non-empty path
WithEventEntry(p, k, e) ==
    [p EXCEPT !.opencode.events.m[k] = e]

WithHookEntry(p, k, e) ==
    [p EXCEPT !.opencode.hooks.m[k] = e]

AllPathsNonEmpty ==
    /\ \A k \in DOMAIN soundConfig.events : soundConfig.events[k].path # <<>>
    /\ \A k \in DOMAIN soundConfig.hooks : soundConfig.hooks[k].path # <<>>

\* C5 as stated: an entry with an empty raw path is absent from the resolved
\* mapping, whose size is one less than for the same pack with a non-empty
\* path at that entry; every value present is a non-empty path.  Refuted by
\* the default injection: {"session.idle": ""} resolves to a mapping that
\* holds session.idle, of the same size as for {"session.idle": "x.wav"}.
C5_AsStated ==
    Resolved =>
        /\ AllPathsNonEmpty
        /\ \A k \in Emptied(pack.opencode.events) :
              /\ k \notin DOMAIN soundConfig.events
              /\ Cardinality(DOMAIN soundConfig.events) =
                    Cardinality(DOMAIN buildConfigFromPack(
                        WithEventEntry(pack, k, StrEntry(MewPath))).v.events) - 1
        /\ \A k \in Emptied(pack.opencode.hooks) :
              /\ k \notin DOMAIN soundConfig.hooks
              /\ Cardinality(DOMAIN soundConfig.hooks) =
                    Cardinality(DOMAIN buildConfigFromPack(
                        WithHookEntry(pack, k, StrEntry(MewPath))).v.hooks) - 1

\* C5 amended: an entry with an empty raw path is dropped by normalization.
\* When some entry of the pack survives (no default is injected) its key is
\* absent from the resolved mapping, whose size is one less than for the same
\* pack with a non-empty path at that entry; when none survives the resolved
\* configuration is the default one.  Every value present is a non-empty path.
C5_EmptyPathDropped ==
    Resolved =>
        /\ AllPathsNonEmpty
        /\ IF Surviving(pack.opencode.events) = {} /\ Surviving(pack.opencode.hooks) = {}
           THEN soundConfig = DefaultConfig
           ELSE /\ \A k \in Emptied(pack.opencode.events) :
                      /\ k \notin DOMAIN soundConfig.events
                      /\ Cardinality(DOMAIN soundConfig.events) =
                            Cardinality(DOMAIN buildConfigFromPack(
                                WithEventEntry(pack, k, StrEntry(MewPath))).v.events) - 1
                /\ \A k \in Emptied(pack.opencode.hooks) :
                      /\ k \notin DOMAIN soundConfig.hooks
                      /\ Cardinality(DOMAIN soundConfig.hooks) =
                            Cardinality(DOMAIN buildConfigFromPack(
                                WithHookEntry(pack, k, StrEntry(MewPath))).v.hooks) - 1

C5_Witness ==
    /\ Resolved
    /\ pack.opencode.events.t = "object"
    /\ DOMAIN pack.opencode.events.m = {"session.idle", "foo"}
    /\ pack.opencode.events.m["foo"] = ObjEntry(Str(<<>>))
    /\ DOMAIN soundConfig.events = {"session.idle"}
    /\ soundConfig.events["session.idle"].path # MewPath

\* the invocation c finds its key configured: an event in the events
\* mapping, a hook in the hooks mapping
Configured(c) ==
    IF c.kind = "event" THEN c.key \in DOMAIN soundConfig.events
    ELSE c.key \in DOMAIN soundConfig.hooks

\* C6: the playback requests issued are exactly one per invocation whose key
\* is configured in its own mapping (events for the generic handler, hooks
\* for a named hook), repeated invocations included.
C6_OneRequestPerConfiguredInvocation ==
    /\ \A c \in DOMAIN calls : (calls[c].play # 0) <=> Configured(calls[c])
    /\ Len(playbacks) = Cardinality({c \in DOMAIN calls : Configured(calls[c])})
    /\ \A j \in DOMAIN playbacks :
          /\ playbacks[j].call \in DOMAIN calls
          /\ calls[playbacks[j].call].play = j

C6_Witness ==
    /\ Len(calls) = 2
    /\ calls[1].kind = "event" /\ calls[1].key = "permission.ask"
    /\ calls[2].kind = "hook" /\ calls[2].key = "permission.ask"
    /\ "permission.ask" \in DOMAIN soundConfig.events
    /\ "permission.ask" \notin DOMAIN soundConfig.hooks
    /\ Len(playbacks) = 1
    /\ playbacks[1].call = 1

\* C7: a handler returns without waiting for the playback command it
\* started, and completes successfully whatever becomes of that command;
\* a failed command leaves the handling of later invocations as it is.
C7_FireAndForget ==
    /\ \A c \in DOMAIN calls : calls[c].status = "returned"
    /\ \A j \in DOMAIN playbacks : playbacks[j].awaitedBy = 0
    /\ \A j \in DOMAIN playbacks :
          playbacks[j].status = "failed" =>
              \A c \in DOMAIN calls :
                  c > playbacks[j].call => ((calls[c].play # 0) <=> Configured(calls[c]))

C7_Witness ==
    /\ Len(calls) = 2
    /\ Len(playbacks) = 2
    /\ playbacks[1].status = "failed"
    /\ playbacks[2].status = "pending"
    /\ calls[1].status = "returned"
    /\ calls[2].status = "returned"

\* the part of path p after its last "/", all of p when it has none
FinalSegment(p) ==
    LET n == Len(p)
        cut == CHOOSE i \in 0..n :
                  /\ i = 0 \/ p[i] = "/"
                  /\ \A j \in (i + 1)..n : p[j] # "/"
    IN  [k \in 1..(n - cut) |-> p[cut + k]]

\* p without its first n characters
Stripped(p, n) ==
    [k \in 1..(Len(p) - n) |-> p[n + k]]

HasPrefix(p, q) ==
    Len(q) <= Len(p) /\ \A k \in 1..Len(q) : p[k] = q[k]

\* the prefix of the default sound directory that path p starts with, <<>>
\* for none: "~/.claude/sounds/", or "$HOME/.claude/sounds/" when HOME is set
SoundDirPrefix(p) ==
    IF HasPrefix(p, SoundsDir \o <<"/">>) THEN SoundsDir \o <<"/">>
    ELSE IF HOME # <<>> /\ HasPrefix(p, HOME \o Stripped(SoundsDir, 1) \o <<"/">>)
         THEN HOME \o Stripped(SoundsDir, 1) \o <<"/">>
    ELSE <<>>

IsEventPlayback(b) ==
    calls[b.call].kind = "event"

EventPlayPaths ==
    LET evs == SelectSeq(playbacks, IsEventPlayback)
    IN  [k \in 1..Len(evs) |-> evs[k].path]

\* C9: on generic events and the same event mapping, the variant that loops
\* over all keys hands playSound the same paths as the variant that looks the
\* event type up: at most one per event, and one exactly when the other has
\* one.
C9_VariantsAgreeOnEvents ==
    /\ (Resolved /\ soundConfig.events = sfxSoundConfig) => sfxPlays = EventPlayPaths
    /\ Resolved =>
          \A type \in EventTypes :
              LET looped == SfxEvent(soundConfig.events, type)
                  direct == EventPath(soundConfig, type)
              IN  /\ Len(looped) <= 1
                  /\ looped = IF direct # <<>> THEN <<direct>> ELSE <<>>

C9_Witness ==
    /\ Resolved
    /\ soundConfig.events = sfxSoundConfig
    /\ Len(calls) = 2
    /\ calls[1].kind = "event" /\ calls[1].key = "foo"
    /\ calls[2].kind = "event" /\ calls[2].key = "session.idle"
    /\ sfxPlays = <<MewPath>>
    /\ EventPlayPaths = <<MewPath>>

\* C10: once resolved, the configuration never changes, and whether an
\* invocation triggers playback depends only on its key and on that
\* configuration.
C10_ConfigNeverChanges ==
    [][Resolved =>
        /\ soundConfig' = soundConfig
        /\ soundConfig = buildConfigFromPack(pack).v
        /\ Len(calls') > Len(calls) =>
              LET c == calls'[Len(calls')]
              IN  (c.play # 0) <=>
                    IF c.kind = "event" THEN c.key \in DOMAIN soundConfig.events
                    ELSE c.key \in DOMAIN soundConfig.hooks]_vars

C10_Witness ==
    /\ Resolved
    /\ Len(calls) = 2
    /\ calls[1].kind = "hook" /\ calls[1].key = "permission.ask" /\ calls[1].play = 1
    /\ calls[2].kind = "hook" /\ calls[2].key = "permission.ask" /\ calls[2].play = 2
    /\ soundConfig = buildConfigFromPack(pack).v

====
